---------------------------- MODULE Spec2Model ----------------------------
(***************************************************************************)
(* Model of amc_streamlit_app.py: the document loader, the filename        *)
(* parser, the field extractor and the batch loop that collects one record *)
(* per uploaded document.                                                  *)
(*                                                                         *)
(* A document text is a sequence of tokens.  The concrete text is the      *)
(* tokens joined by single spaces, a newline token being the character     *)
(* "\n"; every regular expression of the source is modelled by what it     *)
(* matches on such a text.  Extracted values are real strings, built with  *)
(* string concatenation, so a formatted date can be compared with the      *)
(* literal the program prints.                                             *)
(***************************************************************************)
EXTENDS Integers, Sequences, FiniteSets, TLC

VARIABLES uploaded_files, idx, data, warnings, exported, pc

vars == <<uploaded_files, idx, data, warnings, exported, pc>>

(***************************************************************************)
(* Bounds of the model.                                                    *)
(***************************************************************************)
MaxFiles == 3
MaxNameLen == 4
MaxTextLen == 4
MaxAmcLen == 4
MaxRows == 2

(***************************************************************************)
(* Generic helpers.                                                        *)
(***************************************************************************)
BoundedSeq(S, n) == UNION {[1..k -> S] : k \in 0..n}

RECURSIVE Join(_, _)
Join(strs, sep) ==
    IF strs = <<>> THEN ""
    ELSE IF Len(strs) = 1 THEN strs[1]
    ELSE strs[1] \o sep \o Join(Tail(strs), sep)

(***************************************************************************)
(* Tokens.  k is the lexical kind: "w" a word or label, "nl" a newline,    *)
(* "num" a number matching [\d,]+(\.\d{1,2})?, "date" a string of the      *)
(* shape \d{2}\.\d{2}\.\d{4} (any digits: it may not be a calendar date).  *)
(***************************************************************************)
Pad2(n) == IF n < 10 THEN "0" \o ToString(n) ELSE ToString(n)

Pad4(n) ==
    IF n < 10 THEN "000" \o ToString(n)
    ELSE IF n < 100 THEN "00" \o ToString(n)
    ELSE IF n < 1000 THEN "0" \o ToString(n)
    ELSE ToString(n)

W(str) == [k |-> "w", s |-> str, d |-> 0, m |-> 0, y |-> 0]
N(str) == [k |-> "num", s |-> str, d |-> 0, m |-> 0, y |-> 0]
NL == [k |-> "nl", s |-> "\n", d |-> 0, m |-> 0, y |-> 0]
D(dd, mm, yyyy) ==
    [k |-> "date", s |-> Pad2(dd) \o "." \o Pad2(mm) \o "." \o Pad4(yyyy),
     d |-> dd, m |-> mm, y |-> yyyy]

\* re.IGNORECASE on the labels the patterns name: the upper-case form of
\* the mixed-case spellings the documents of the model use.
Fold(str) ==
    CASE str = "Amount" -> "AMOUNT"
      [] str = "Amc Period" -> "AMC PERIOD"
      [] str = "Unit Details" -> "UNIT DETAILS"
      [] str = "Customer Name" -> "CUSTOMER NAME"
      [] str = "Contact Number" -> "CONTACT NUMBER"
      [] str = "Address" -> "ADDRESS"
      [] str = "Location" -> "LOCATION"
      [] str = "Annual Maintenance Contract" -> "ANNUAL MAINTENANCE CONTRACT"
      [] str = "labour maintenance contract" -> "LABOUR MAINTENANCE CONTRACT"
      [] str = "Annual Maintenance" -> "ANNUAL MAINTENANCE"
      [] str = "Contract" -> "CONTRACT"
      [] str = "Terms & Conditions" -> "TERMS & CONDITIONS"
      [] OTHER -> str

IsWs(t) == t.k = "nl"

\* \s* : the first position at or after i that holds no whitespace token
\* (Len(text) + 1 when only whitespace is left).
RECURSIVE SkipWs(_, _)
SkipWs(text, i) ==
    IF i <= Len(text) /\ IsWs(text[i]) THEN SkipWs(text, i + 1) ELSE i

\* Mutant of Blank: "if txt:" in place of "if txt.strip():".
Blank_EmptyOnly(text) == text = <<>>

\* str.strip() of the joined text is empty: the text holds newlines only.
Blank(text) == \A i \in 1..Len(text) : IsWs(text[i])

IsLabel(text, i, label) ==
    i <= Len(text) /\ text[i].k = "w" /\ Fold(text[i].s) = label


(***************************************************************************)
(* Dates: datetime.strptime, strftime and pandas.DateOffset.               *)
(***************************************************************************)
IsLeap(yyyy) == (yyyy % 4 = 0 /\ yyyy % 100 # 0) \/ yyyy % 400 = 0

DaysInMonth(mm, yyyy) ==
    IF mm = 2 THEN (IF IsLeap(yyyy) THEN 29 ELSE 28)
    ELSE IF mm \in {4, 6, 9, 11} THEN 30
    ELSE 31

\* datetime.strptime(t, '%d.%m.%Y') does not raise.
strptime_ok(t) ==
    /\ t.y >= 1 /\ t.y <= 9999
    /\ t.m >= 1 /\ t.m <= 12
    /\ t.d >= 1 /\ t.d <= DaysInMonth(t.m, t.y)

\* .strftime('%d-%m-%Y')
strftime_dmy(t) == Pad2(t.d) \o "-" \o Pad2(t.m) \o "-" \o Pad4(t.y)

MonthName(mm) ==
    <<"January", "February", "March", "April", "May", "June", "July",
      "August", "September", "October", "November", "December">>[mm]

\* start + pd.DateOffset(months=n): the month and year move, the year
\* carrying past December; ok is FALSE when the result leaves the years a
\* datetime can hold, where the addition raises.
DateOffset(start, n) ==
    LET total == (start.m - 1) + n
        yy == start.y + (total \div 12)
        mm == (total % 12) + 1
    IN  [ok |-> yy <= 9999, y |-> yy, m |-> mm,
         d |-> IF start.d <= DaysInMonth(mm, yy) THEN start.d
               ELSE DaysInMonth(mm, yy)]

\* svc.strftime('%B %Y')
strftime_BY(svc) == MonthName(svc.m) \o " " \o Pad4(svc.y)

(***************************************************************************)
(* extract_contract_number_from_filename: re.search(r'CC(\d+)_', name).     *)
(* A filename is a sequence of one-character strings.                      *)
(***************************************************************************)
IsDigit(c) == c \in {"0", "1", "2", "3", "4", "5", "6", "7", "8", "9"}

\* \d+ is greedy: the end of the digit run that starts at i (i - 1 if none).
RECURSIVE DigitRunEnd(_, _)
DigitRunEnd(name, i) ==
    IF i <= Len(name) /\ IsDigit(name[i]) THEN DigitRunEnd(name, i + 1)
    ELSE i - 1

\* The pattern matches at position i: "CC", one or more digits, "_".  The
\* digit run cannot give a digit back to "_", so the greedy run decides.
CCMatchAt(name, i) ==
    /\ i + 3 <= Len(name)
    /\ name[i] = "C" /\ name[i + 1] = "C"
    /\ LET e == DigitRunEnd(name, i + 2)
       IN  e >= i + 2 /\ e + 1 <= Len(name) /\ name[e + 1] = "_"

\* Mutant of CCSearch: the last match of the pattern, not the first.
CCSearch_Last(name, i) ==
    LET M == {j \in i..Len(name) : CCMatchAt(name, j)}
    IN  IF M = {} THEN 0 ELSE CHOOSE j \in M : \A k \in M : k <= j

\* re.search scans the start positions from the left.
RECURSIVE CCSearch(_, _)
CCSearch(name, i) ==
    IF i > Len(name) THEN 0
    ELSE IF CCMatchAt(name, i) THEN i
    ELSE CCSearch(name, i + 1)

extract_contract_number_from_filename(filename) ==
    LET i == CCSearch(filename, 1)
    IN  IF i = 0 THEN ""
        ELSE Join(SubSeq(filename, i + 2, DigitRunEnd(filename, i + 2)), "")

(***************************************************************************)
(* extract_first_valid_date: the candidates of re.findall, in text order,  *)
(* the first one strptime accepts.                                         *)
(***************************************************************************)
\* Mutant of FirstValidFrom: a candidate that fails to parse ends the
\* search ("return ''" in place of "continue").
RECURSIVE FirstValidFrom_NoRetry(_, _)
FirstValidFrom_NoRetry(text, i) ==
    IF i > Len(text) THEN ""
    ELSE IF text[i].k = "date"
    THEN (IF strptime_ok(text[i]) THEN strftime_dmy(text[i]) ELSE "")
    ELSE FirstValidFrom_NoRetry(text, i + 1)

RECURSIVE FirstValidFrom(_, _)
FirstValidFrom(text, i) ==
    IF i > Len(text) THEN ""
    ELSE IF text[i].k = "date" /\ strptime_ok(text[i]) THEN strftime_dmy(text[i])
    ELSE FirstValidFrom(text, i + 1)

extract_first_valid_date(text) == FirstValidFrom(text, 1)

(***************************************************************************)
(* extract_details: the record and its fields.                             *)
(***************************************************************************)
\* fields[key] = value on a Python dict: the key is added when it is new.
SetItem(fields, key, value) == (key :> value) @@ fields

\* The dict literal extract_details starts from.
InitialFields(contract_no) ==
    [f \in {"Contract Type", "Customer Name", "Contact Number", "Address",
            "Location", "Unit Details", "Amount", "Contract Date",
            "Amc Start Date", "Amc End Date", "1st Service Month",
            "2nd Service Month", "3rd Service Month", "4th Service Month"}
        |-> ""]
    @@ ("Contract No" :> contract_no) @@ ("Service Frequency" :> 4)

\* The tokens text[a..b] as their strings (<<>> when b < a).
RECURSIVE Strs(_, _, _)
Strs(text, a, b) ==
    IF b < a THEN <<>> ELSE <<text[a].s>> \o Strs(text, a + 1, b)

\* As Strs, with the whitespace tokens left out (re.sub(r'\s+', ' ', ...)).
RECURSIVE WordStrs(_, _, _)
WordStrs(text, a, b) ==
    IF b < a THEN <<>>
    ELSE IF IsWs(text[a]) THEN WordStrs(text, a + 1, b)
    ELSE <<text[a].s>> \o WordStrs(text, a + 1, b)

\* The first newline token at or after i (0 if none).
RECURSIVE NextNl(_, _)
NextNl(text, i) ==
    IF i > Len(text) THEN 0
    ELSE IF text[i].k = "nl" THEN i
    ELSE NextNl(text, i + 1)

\* label \s* : \s* (.*?) \n  matched with the label at position i.  \s* is
\* greedy and may run over newlines; when no newline is left after it, it
\* gives back its last newline and the capture is empty.
LabelLine(text, i, label) ==
    LET c == SkipWs(text, i + 1)
        j == SkipWs(text, c + 1)
        nl == NextNl(text, j)
    IN  IF ~(IsLabel(text, i, label) /\ c <= Len(text) /\ text[c] = W(":"))
        THEN [ok |-> FALSE, from |-> 0, to |-> 0]
        ELSE IF nl # 0 THEN [ok |-> TRUE, from |-> j, to |-> nl - 1]
        ELSE IF j > c + 1 THEN [ok |-> TRUE, from |-> j, to |-> j - 1]
        ELSE [ok |-> FALSE, from |-> 0, to |-> 0]

\* re.search: the leftmost position where the label pattern matches.
RECURSIVE LabelSearch(_, _, _)
LabelSearch(text, i, label) ==
    IF i > Len(text) THEN [ok |-> FALSE, from |-> 0, to |-> 0]
    ELSE IF LabelLine(text, i, label).ok THEN LabelLine(text, i, label)
    ELSE LabelSearch(text, i + 1, label)

\* find(pat): group(1).strip() of the first match, "" without a match.
find(text, label) ==
    LET mt == LabelSearch(text, 1, label)
    IN  IF mt.ok THEN Join(Strs(text, mt.from, mt.to), " ") ELSE ""

\* Contract Type: the two searches of lines 62-65.
HasPhrase(text, word) ==
    \E i \in 1..Len(text) :
        \/ IsLabel(text, i, word \o " MAINTENANCE CONTRACT")
        \/ /\ IsLabel(text, i, word \o " MAINTENANCE")
           /\ IsLabel(text, i + 1, "CONTRACT")

\* Mutant of ContractType: the two searches in the other order.
ContractType_LabourFirst(text) ==
    IF HasPhrase(text, "LABOUR") THEN "LABOUR MAINTENANCE CONTRACT"
    ELSE IF HasPhrase(text, "ANNUAL") THEN "ANNUAL MAINTENANCE CONTRACT"
    ELSE ""

ContractType(text) ==
    IF HasPhrase(text, "ANNUAL") THEN "ANNUAL MAINTENANCE CONTRACT"
    ELSE IF HasPhrase(text, "LABOUR") THEN "LABOUR MAINTENANCE CONTRACT"
    ELSE ""

\* Contact Number: find(...).split("UNIT DETAILS")[0].strip(); the split is
\* case-sensitive.
RECURSIVE UntilUnitDetails(_, _, _)
UntilUnitDetails(text, a, b) ==
    IF b < a \/ text[a].s = "UNIT DETAILS" THEN <<>>
    ELSE <<text[a].s>> \o UntilUnitDetails(text, a + 1, b)

ContactNumber(text) ==
    LET mt == LabelSearch(text, 1, "CONTACT NUMBER")
    IN  IF mt.ok THEN Join(UntilUnitDetails(text, mt.from, mt.to), " ") ELSE ""

\* Address: Address \s* : \s* (.*?) (?:Contact Number|Location|Unit Details)
IsAddressEnd(t) ==
    t.k = "w" /\ Fold(t.s) \in {"CONTACT NUMBER", "LOCATION", "UNIT DETAILS"}

RECURSIVE NextAddressEnd(_, _)
NextAddressEnd(text, i) ==
    IF i > Len(text) THEN 0
    ELSE IF IsAddressEnd(text[i]) THEN i
    ELSE NextAddressEnd(text, i + 1)

AddressAt(text, i) ==
    LET c == SkipWs(text, i + 1)
        j == SkipWs(text, c + 1)
        e == NextAddressEnd(text, j)
    IN  IF IsLabel(text, i, "ADDRESS") /\ c <= Len(text) /\ text[c] = W(":")
           /\ e # 0
        THEN [ok |-> TRUE, from |-> j, to |-> e - 1]
        ELSE [ok |-> FALSE, from |-> 0, to |-> 0]

RECURSIVE AddressSearch(_, _)
AddressSearch(text, i) ==
    IF i > Len(text) THEN [ok |-> FALSE, from |-> 0, to |-> 0]
    ELSE IF AddressAt(text, i).ok THEN AddressAt(text, i)
    ELSE AddressSearch(text, i + 1)

Address(text) ==
    LET addr == AddressSearch(text, 1)
    IN  IF addr.ok THEN Join(WordStrs(text, addr.from, addr.to), " ") ELSE ""

\* Location: kept unless the captured line holds the Contact Number label.
Location(text) ==
    LET loc == LabelSearch(text, 1, "LOCATION")
    IN  IF loc.ok /\ ~(\E q \in loc.from..loc.to :
                          Fold(text[q].s) = "CONTACT NUMBER")
        THEN Join(Strs(text, loc.from, loc.to), " ")
        ELSE ""

(***************************************************************************)
(* Amount (lines 79-82).                                                   *)
(***************************************************************************)
\* What ([\d,]+(?:\.\d{1,2})?) captures at the start of a token: a number
\* token whole, of a dd.mm.yyyy string the "dd.mm", nothing of a word.
NumHead(t) ==
    IF t.k = "num" THEN t.s
    ELSE IF t.k = "date" THEN Pad2(t.d) \o "." \o Pad2(t.m)
    ELSE ""

\* What the same group captures when it must end where "/-" follows: a
\* number token whole, of a dd.mm.yyyy string the "yyyy".
NumTail(t) ==
    IF t.k = "num" THEN t.s
    ELSE IF t.k = "date" THEN Pad4(t.y)
    ELSE ""

IsTok(text, i, strs) == i <= Len(text) /\ text[i].k = "w" /\ text[i].s \in strs

\* AMOUNT \s* [:\-]? \s* (?:Rs\.?)? \s* (number) with AMOUNT at position i:
\* the position of the captured number, 0 without a match.
PrimaryAt(text, i) ==
    LET p1 == SkipWs(text, i + 1)
        p2 == IF IsTok(text, p1, {":", "-"}) THEN SkipWs(text, p1 + 1) ELSE p1
        p3 == IF IsTok(text, p2, {"Rs.", "Rs", "rs.", "rs"})
              THEN SkipWs(text, p2 + 1) ELSE p2
    IN  IF IsLabel(text, i, "AMOUNT") /\ p3 <= Len(text) /\ NumHead(text[p3]) # ""
        THEN p3 ELSE 0

RECURSIVE PrimarySearch(_, _)
PrimarySearch(text, i) ==
    IF i > Len(text) THEN 0
    ELSE IF PrimaryAt(text, i) # 0 THEN PrimaryAt(text, i)
    ELSE PrimarySearch(text, i + 1)

\* (number) \s* /-  : the number token at i is followed by the "/-" marker.
SecondaryAt(text, i) ==
    /\ NumTail(text[i]) # ""
    /\ IsTok(text, SkipWs(text, i + 1), {"/-"})

RECURSIVE SecondarySearch(_, _)
SecondarySearch(text, i) ==
    IF i > Len(text) THEN 0
    ELSE IF SecondaryAt(text, i) THEN i
    ELSE SecondarySearch(text, i + 1)

\* Mutant of Amount: the "/-" pattern is tried before the AMOUNT pattern.
Amount_SecondaryFirst(text) ==
    LET p == PrimarySearch(text, 1)
        q == SecondarySearch(text, 1)
    IN  IF q # 0 THEN NumTail(text[q])
        ELSE IF p # 0 THEN NumHead(text[p])
        ELSE ""

Amount(text) ==
    LET p == PrimarySearch(text, 1)
        q == SecondarySearch(text, 1)
    IN  IF p # 0 THEN NumHead(text[p])
        ELSE IF q # 0 THEN NumTail(text[q])
        ELSE ""

(***************************************************************************)
(* AMC period (lines 84-96).                                               *)
(***************************************************************************)
\* AMC PERIOD \s* [:\-]? \s* (date) \s* (?:to|-) \s* (date) with the label
\* at position i: the positions of the two captured strings.
AmcAt(text, i) ==
    LET p1 == SkipWs(text, i + 1)
        p2 == IF IsTok(text, p1, {":", "-"}) THEN SkipWs(text, p1 + 1) ELSE p1
        p3 == SkipWs(text, p2 + 1)
        p4 == SkipWs(text, p3 + 1)
    IN  IF /\ IsLabel(text, i, "AMC PERIOD")
           /\ p2 <= Len(text) /\ text[p2].k = "date"
           /\ IsTok(text, p3, {"to", "TO", "To", "-"})
           /\ p4 <= Len(text) /\ text[p4].k = "date"
        THEN [ok |-> TRUE, g1 |-> p2, g2 |-> p4]
        ELSE [ok |-> FALSE, g1 |-> 0, g2 |-> 0]

RECURSIVE AmcSearch(_, _)
AmcSearch(text, i) ==
    IF i > Len(text) THEN [ok |-> FALSE, g1 |-> 0, g2 |-> 0]
    ELSE IF AmcAt(text, i).ok THEN AmcAt(text, i)
    ELSE AmcSearch(text, i + 1)

\* Mutant of ServiceLabel: every ordinal gets the suffix "th".
ServiceLabel_AllTh(i) == ToString(i + 1) \o "th Service Month"

\* The label the loop writes for i = 0..3.
ServiceLabel(i) ==
    IF i = 0 THEN ToString(i + 1) \o "st Service Month"
    ELSE IF i = 1 THEN ToString(i + 1) \o "nd Service Month"
    ELSE IF i = 2 THEN ToString(i + 1) \o "rd Service Month"
    ELSE ToString(i + 1) \o "th Service Month"

\* for i in range(4): the fields written before an addition raises stay
\* written; the bare except ends the loop.
RECURSIVE ServiceMonths(_, _, _)
ServiceMonths(fields, start, i) ==
    IF i = 4 THEN fields
    ELSE LET svc == DateOffset(start, 2 + i * 3)
         IN  IF ~svc.ok THEN fields
             ELSE ServiceMonths(
                      SetItem(fields, ServiceLabel(i), strftime_BY(svc)),
                      start, i + 1)

AmcPeriod(fields, text) ==
    LET amc == AmcSearch(text, 1)
    IN  IF ~amc.ok THEN fields
        ELSE IF ~strptime_ok(text[amc.g1]) \/ ~strptime_ok(text[amc.g2])
        THEN fields
        ELSE ServiceMonths(
                 SetItem(SetItem(fields, "Amc Start Date",
                                 strftime_dmy(text[amc.g1])),
                         "Amc End Date", strftime_dmy(text[amc.g2])),
                 text[amc.g1], 0)

(***************************************************************************)
(* Unit Details (lines 98-119).                                            *)
(***************************************************************************)
\* c.lower() of the header cells the documents of the model use.
Lower(cell) ==
    CASE cell = "Brand" -> "brand"
      [] cell = "QTY" -> "qty"
      [] cell = "Qty" -> "qty"
      [] cell = "Rate" -> "rate"
      [] cell = "Item" -> "item"
      [] cell = "Brand Name" -> "brand name"
      [] OTHER -> cell

\* cell.strip() of the cells the documents of the model use.
StripCell(cell) ==
    CASE cell = " LG " -> "LG"
      [] cell = "  " -> ""
      [] OTHER -> cell

\* re.search(r'\bTOTAL\b', ..., re.IGNORECASE) finds the word in the cell.
HasTotalWord(cell) ==
    cell \in {"TOTAL", "Total", "total", "TOTAL 5000", "Grand Total"}

HeaderKeywords == {"brand", "range", "rate", "qty", "amount", "ton"}

\* Mutant of Qualifies: the len(table) > 1 test is left out.
Qualifies_AnyLength(table) ==
    /\ table # <<>>
    /\ \E c \in 1..Len(table[1]) : Lower(table[1][c]) \in HeaderKeywords

\* len(table) > 1 and any(h in headers for h in (...))
Qualifies(table) ==
    /\ Len(table) > 1
    /\ \E c \in 1..Len(table[1]) : Lower(table[1][c]) \in HeaderKeywords

\* [cell for cell in row if cell.strip()]
RECURSIVE NonEmptyCells(_)
NonEmptyCells(row) ==
    IF row = <<>> THEN <<>>
    ELSE IF StripCell(row[1]) = "" THEN NonEmptyCells(Tail(row))
    ELSE <<row[1]>> \o NonEmptyCells(Tail(row))

RowText(row) == Join(NonEmptyCells(row), " | ")

RowHasTotal(row) == \E c \in 1..Len(row) : HasTotalWord(row[c])

\* Mutant of RowKept: the TOTAL rows are not left out.
RowKept_WithTotal(row) == RowText(row) # ""

\* The row is appended: row_text and not re.search(r'\bTOTAL\b', row_text).
RowKept(row) == RowText(row) # "" /\ ~RowHasTotal(row)

\* for row in table[1:]: the texts of the rows that are appended.
RECURSIVE RowTexts(_)
RowTexts(rows) ==
    IF rows = <<>> THEN <<>>
    ELSE IF RowKept(rows[1]) THEN <<RowText(rows[1])>> \o RowTexts(Tail(rows))
    ELSE RowTexts(Tail(rows))

\* for table in table_data: the first table that qualifies (0 if none).
RECURSIVE FirstQualifying(_, _)
FirstQualifying(table_data, i) ==
    IF i > Len(table_data) THEN 0
    ELSE IF Qualifies(table_data[i]) THEN i
    ELSE FirstQualifying(table_data, i + 1)

\* The lookahead (?=AMOUNT|AMC PERIOD|CONTRACT NO|DATE|SERVICE|TERMS &
\* CONDITIONS|$) inside a token: whether a stop word occurs in it, and the
\* stripped text of the token before the stop word.
StopCut(t) ==
    IF t.k = "w" /\ Fold(t.s) \in {"AMOUNT", "AMC PERIOD", "CONTRACT NO", "DATE",
                                    "SERVICE", "TERMS & CONDITIONS"}
    THEN [hit |-> TRUE, pre |-> ""]
    ELSE IF t.s = "routine service" THEN [hit |-> TRUE, pre |-> "routine"]
    ELSE [hit |-> FALSE, pre |-> t.s]

\* The same for the token (.+?) starts in, whose first character is
\* consumed before the lookahead is tried: a stop word that starts the
\* token is not seen.
StopCut1(t) ==
    IF t.s = "routine service" THEN [hit |-> TRUE, pre |-> "routine"]
    ELSE [hit |-> FALSE, pre |-> t.s]

\* group(1).splitlines() from position i on: the lines, each a sequence of
\* strings, up to the first stop word or the end of the text.
RECURSIVE CaptureLines(_, _, _, _)
CaptureLines(text, i, cur, lines) ==
    IF i > Len(text) THEN Append(lines, cur)
    ELSE IF text[i].k = "nl" THEN CaptureLines(text, i + 1, <<>>, Append(lines, cur))
    ELSE IF StopCut(text[i]).hit
    THEN Append(lines, IF StopCut(text[i]).pre = "" THEN cur
                       ELSE Append(cur, StopCut(text[i]).pre))
    ELSE CaptureLines(text, i + 1, Append(cur, text[i].s), lines)

\* clean_line and not re.search(r'Terms & Conditions|routine service', ...)
LineKept(line) ==
    /\ line # <<>>
    /\ \A q \in 1..Len(line) :
           line[q] \notin {"Terms & Conditions", "TERMS & CONDITIONS",
                           "routine service"}

RECURSIVE LineTexts(_)
LineTexts(lines) ==
    IF lines = <<>> THEN <<>>
    ELSE IF LineKept(lines[1]) THEN <<Join(lines[1], " ")>> \o LineTexts(Tail(lines))
    ELSE LineTexts(Tail(lines))

RECURSIVE FirstLabel(_, _, _)
FirstLabel(text, i, label) ==
    IF i > Len(text) THEN 0
    ELSE IF IsLabel(text, i, label) THEN i
    ELSE FirstLabel(text, i + 1, label)

\* UNIT DETAILS \s* :? (.+?) (?=...): the lines kept from the free text.
\* The optional colon is consumed only when something follows it; (.+?)
\* takes at least one character.
UnitLinesFromText(text) ==
    LET i == FirstLabel(text, 1, "UNIT DETAILS")
        p == SkipWs(text, i + 1)
    IN  IF i = 0 \/ p > Len(text) THEN <<>>
        ELSE IF text[p] = W(":")
        THEN (IF p = Len(text) THEN <<":">>
              ELSE LineTexts(CaptureLines(text, p + 1, <<>>, <<>>)))
        ELSE IF StopCut1(text[p]).hit
        THEN LineTexts(<< <<StopCut1(text[p]).pre>> >>)
        ELSE LineTexts(CaptureLines(text, p + 1, <<text[p].s>>, <<>>))

\* unit_details, stripped: the table rows when a table qualified
\* (extracted = True), the free-text lines otherwise.
UnitDetails(text, table_data) ==
    LET t == FirstQualifying(table_data, 1)
    IN  IF t # 0 THEN Join(RowTexts(Tail(table_data[t])), "\n")
        ELSE Join(UnitLinesFromText(text), "\n")

(***************************************************************************)
(* extract_details (lines 38-120).                                         *)
(***************************************************************************)
extract_details(text, contract_no, table_data) ==
    LET f0 == InitialFields(contract_no)
        f1 == SetItem(f0, "Contract Type", ContractType(text))
        f2 == SetItem(f1, "Customer Name", find(text, "CUSTOMER NAME"))
        f3 == SetItem(f2, "Contact Number", ContactNumber(text))
        f4 == SetItem(f3, "Address", Address(text))
        f5 == SetItem(f4, "Location", Location(text))
        f6 == SetItem(f5, "Contract Date", extract_first_valid_date(text))
        f7 == SetItem(f6, "Amount", Amount(text))
        f8 == AmcPeriod(f7, text)
    IN  SetItem(f8, "Unit Details", UnitDetails(text, table_data))

(***************************************************************************)
(* extract_text_from_docx (lines 11-24).  A file is a record: name (the    *)
(* filename), ok (Document(file) opens it), text (the paragraphs, joined)  *)
(* and tables (the grids of raw cell texts).                               *)
(***************************************************************************)
StripRow(row) == [c \in 1..Len(row) |-> StripCell(row[c])]

StripTable(table) == [r \in 1..Len(table) |-> StripRow(table[r])]

extract_text_from_docx(file) ==
    IF file.ok
    THEN [text |-> file.text,
          table_data |-> [t \in 1..Len(file.tables) |-> StripTable(file.tables[t])]]
    ELSE [text |-> <<>>, table_data |-> <<>>]

(***************************************************************************)
(* The upload handler (lines 128-156): one step per uploaded file, then    *)
(* the export.                                                             *)
(***************************************************************************)
\* except branch of the loader: a warning, and the file yields ('', []).
ReadFails ==
    /\ pc = "loop" /\ idx <= Len(uploaded_files)
    /\ ~uploaded_files[idx].ok
    /\ warnings' = warnings + 1
    /\ idx' = idx + 1
    /\ UNCHANGED <<uploaded_files, data, exported, pc>>

\* if txt.strip(): is false: nothing is appended.
SkipBlank ==
    /\ pc = "loop" /\ idx <= Len(uploaded_files)
    /\ uploaded_files[idx].ok
    /\ Blank(extract_text_from_docx(uploaded_files[idx]).text)
    /\ idx' = idx + 1
    /\ UNCHANGED <<uploaded_files, data, warnings, exported, pc>>

ProcessFile ==
    /\ pc = "loop" /\ idx <= Len(uploaded_files)
    /\ uploaded_files[idx].ok
    /\ LET loaded == extract_text_from_docx(uploaded_files[idx])
           contract_no ==
               extract_contract_number_from_filename(uploaded_files[idx].name)
       IN  /\ ~Blank(loaded.text)
           /\ data' = Append(data, extract_details(loaded.text, contract_no,
                                                   loaded.table_data))
    /\ idx' = idx + 1
    /\ UNCHANGED <<uploaded_files, warnings, exported, pc>>

\* if data: the table is shown and offered for download.
ExportExcel ==
    /\ pc = "loop" /\ idx > Len(uploaded_files)
    /\ data # <<>>
    /\ exported' = data
    /\ pc' = "done"
    /\ UNCHANGED <<uploaded_files, idx, data, warnings>>

NoExport ==
    /\ pc = "loop" /\ idx > Len(uploaded_files)
    /\ data = <<>>
    /\ pc' = "done"
    /\ UNCHANGED <<uploaded_files, idx, data, warnings, exported>>

Next == ReadFails \/ SkipBlank \/ ProcessFile \/ ExportExcel \/ NoExport

(***************************************************************************)
(* The uploaded documents of each specification.                           *)
(***************************************************************************)
File(name, ok, text, tables) ==
    [name |-> name, ok |-> ok, text |-> text, tables |-> tables]

ClientName == <<"C", "C", "1", "2", "3", "4", "_", "x">>

PlainName == <<"x", "1", "_">>

\* A file python-docx cannot open.
Corrupt == File(PlainName, FALSE, <<>>, <<>>)

BrandTable == << <<"Brand", "Qty">>, <<" LG ", "5">>, <<"TOTAL", "5000">> >>

\* A whole contract, as the documents the program is written for.
ContractText ==
    <<W("Annual Maintenance Contract"), NL,
      W("Customer Name"), W(":"), W("Acme"), NL,
      W("Address"), W(":"), W("12"), NL, W("Main"), W("Location"), W(":"),
      W("Pune"), NL,
      W("Contact Number"), W(":"), N("98450"), W("UNIT DETAILS"), NL,
      W("foo"), NL,
      W("AMOUNT"), W(":"), W("Rs."), N("12,500.00"), NL,
      W("AMC PERIOD"), W(":"), D(1, 3, 2024), W("to"), D(28, 2, 2025), NL>>

BatchFiles ==
    {Corrupt,
     File(ClientName, TRUE, ContractText, <<BrandTable>>),
     File(ClientName, TRUE, <<W("x"), N("12500"), W("/-")>>, <<>>),
     File(PlainName, TRUE, ContractText, <<>>),
     File(PlainName, TRUE, <<>>, <<BrandTable>>),
     File(PlainName, TRUE, <<NL>>, <<BrandTable>>),
     File(ClientName, TRUE, <<NL, NL>>, <<>>),
     File(PlainName, TRUE, <<NL, W("labour maintenance contract")>>, <<>>)}

\* One readable file per text, and the file that cannot be opened.
OneFile(texts, tablesets) ==
    {<<Corrupt>>} \cup
    {<<File(ClientName, TRUE, t, tb)>> : t \in texts, tb \in tablesets}

\* Filenames: a stem over the characters of the pattern, then nothing or a
\* second contract tag.
NameChars == {"C", "1", "_", "x"}

FileNames ==
    {stem \o tag : stem \in BoundedSeq(NameChars, MaxNameLen),
                   tag \in {<<>>, <<"C", "C", "2", "_">>}}
    \cup {ClientName}

\* Two files that share a filename and differ in body and tables.
NameBatches ==
    {<<File(n, TRUE, ContractText, <<BrandTable>>),
       File(n, b.ok, b.text, <<>>)>> :
        n \in FileNames,
        b \in {[ok |-> TRUE, text |-> <<W("x"), N("12500"), W("/-")>>],
               [ok |-> TRUE, text |-> <<NL>>],
               [ok |-> FALSE, text |-> <<>>]}}
    \cup {<<Corrupt>>}

DateAlphabet ==
    {D(31, 2, 2024), D(15, 13, 2024), D(29, 2, 2023), D(29, 2, 2024),
     D(1, 3, 2024), W("x")}

AmountAlphabet ==
    {W("AMOUNT"), W(":"), W("Rs."), N("12,500.00"), N("12500"), W("/-"),
     W("x"), NL}

TypeAlphabet ==
    {W("Annual Maintenance Contract"), W("labour maintenance contract"),
     W("Annual Maintenance"), W("LABOUR MAINTENANCE"), W("Contract"),
     W("x"), NL}

AmcAlphabet ==
    {W("AMC PERIOD"), W(":"), W("to"), W("-"), D(1, 3, 2024), D(31, 2, 2024),
     D(1, 12, 9999)}

\* What precedes the varied part of an AMC text: nothing, or an earlier
\* AMC PERIOD line.
AmcPrefixes ==
    {<<>>,
     <<W("Amc Period"), D(31, 2, 2024), W("to"), D(1, 3, 2024), NL>>,
     <<W("AMC PERIOD"), W(":"), D(1, 2, 9999), W("-"), D(1, 3, 2024), NL>>}

AmcTexts ==
    {p \o b : p \in AmcPrefixes, b \in BoundedSeq(AmcAlphabet, MaxAmcLen)}
    \cup {<<W("AMC PERIOD"), W(":"), D(1, 3, 2024), W("to"), D(28, 2, 2025)>>}

\* Tables: a header row and up to MaxRows data rows of raw cells.
HeaderRows == {<<"Brand", "Qty">>, <<"Item", "Brand Name">>, <<"QTY", "Rate">>}

DataRows ==
    {<<"LG", "5">>, <<" LG ", "">>, <<"", "  ">>, <<"TOTAL", "5000">>,
     <<"SUBTOTAL", "7">>, <<"Grand Total", "9">>}

Tables ==
    {<<h>> \o rows : h \in HeaderRows, rows \in BoundedSeq(DataRows, MaxRows)}

\* A table that may stand before the varied one.
LeadingTables ==
    {<< <<"Brand", "Qty">> >>,
     << <<"Item", "Brand Name">>, <<"Voltas", "2">> >>,
     << <<"Rate">>, <<"700">> >>}

TableLists ==
    {<<>>} \cup {<<t>> : t \in Tables}
    \cup {<<l, t>> : l \in LeadingTables, t \in Tables}

UnitTexts ==
    {<<W("x")>>,
     <<W("UNIT DETAILS"), W(":"), W("foo")>>,
     <<W("Unit Details"), W("foo"), NL, W("bar"), W("AMOUNT"), N("5")>>,
     <<W("UNIT DETAILS"), W("Terms & Conditions"), NL, W("routine service")>>,
     <<NL>>}

(***************************************************************************)
(* Specifications.  Each starts the handler on a set of uploads.           *)
(***************************************************************************)
Start(batches) ==
    /\ uploaded_files \in batches
    /\ idx = 1
    /\ data = <<>>
    /\ warnings = 0
    /\ exported = <<>>
    /\ pc = "loop"

Init == Start(BoundedSeq(BatchFiles, MaxFiles))

Spec == Init /\ [][Next]_vars

InitName == Start(NameBatches)

SpecName == InitName /\ [][Next]_vars

InitDate == Start(OneFile(BoundedSeq(DateAlphabet, MaxTextLen), {<<>>}))

SpecDate == InitDate /\ [][Next]_vars

InitAmount == Start(OneFile(BoundedSeq(AmountAlphabet, MaxTextLen), {<<>>}))

SpecAmount == InitAmount /\ [][Next]_vars

InitType == Start(OneFile(BoundedSeq(TypeAlphabet, MaxTextLen), {<<>>}))

SpecType == InitType /\ [][Next]_vars

InitAmc == Start(OneFile(AmcTexts, {<<>>}))

SpecAmc == InitAmc /\ [][Next]_vars

InitUnit == Start(OneFile(UnitTexts, TableLists))

SpecUnit == InitUnit /\ [][Next]_vars

(***************************************************************************)
(* Properties.  A record of data is read against the file it was built     *)
(* from: the k-th record comes from the k-th uploaded file, among those    *)
(* handled so far, that opened and whose text is not whitespace only.      *)
(***************************************************************************)
OnlyNewlines(text) == \A j \in 1..Len(text) : text[j].k = "nl"

RECURSIVE Sources(_)
Sources(n) ==
    IF n = 0 THEN <<>>
    ELSE IF uploaded_files[n].ok /\ ~OnlyNewlines(uploaded_files[n].text)
    THEN Append(Sources(n - 1), n)
    ELSE Sources(n - 1)

EachRecord(P(_, _)) ==
    \A k \in 1..Len(data) :
        /\ k <= Len(Sources(idx - 1))
        /\ P(data[k], uploaded_files[Sources(idx - 1)[k]])

SomeRecord(P(_, _)) ==
    \E k \in 1..Len(data) :
        /\ k <= Len(Sources(idx - 1))
        /\ P(data[k], uploaded_files[Sources(idx - 1)[k]])

LoadedText(n) == extract_text_from_docx(uploaded_files[n]).text

RecordOf(n) ==
    extract_details(
        LoadedText(n),
        extract_contract_number_from_filename(uploaded_files[n].name),
        extract_text_from_docx(uploaded_files[n]).table_data)

RECURSIVE RecordsOfSources(_)
RecordsOfSources(srcs) ==
    IF srcs = <<>> THEN <<>>
    ELSE <<RecordOf(srcs[1])>> \o RecordsOfSources(Tail(srcs))

\* C1, as stated: when the batch is done, the result list holds one record
\* per uploaded document whose loaded text is non-empty.
C1_OnePerNonEmptyText ==
    pc = "done" =>
        Len(data) = Cardinality({n \in 1..Len(uploaded_files) :
                                    LoadedText(n) # <<>>})

\* C1, amended: at every point of the batch the result list holds, in
\* upload order, exactly one record per handled document that opened and
\* whose text is not empty after stripping whitespace; a document that
\* fails to load or whose text is empty or whitespace only adds nothing and
\* the loop goes on to the end of the batch, so the final length is the
\* number of inputs minus the number of such documents.
C1_OnePerNonBlankText ==
    /\ data = RecordsOfSources(Sources(idx - 1))
    /\ pc = "done" =>
        /\ idx = Len(uploaded_files) + 1
        /\ Len(data) =
             Len(uploaded_files)
             - Cardinality({n \in 1..Len(uploaded_files) :
                               \/ ~uploaded_files[n].ok
                               \/ OnlyNewlines(uploaded_files[n].text)})

\* C1 witness: a batch is done whose first file could not be opened, whose
\* second file holds a newline only and whose third file, with text, gave
\* the only record.
C1_Witness ==
    /\ pc = "done" /\ Len(uploaded_files) = 3
    /\ ~uploaded_files[1].ok
    /\ uploaded_files[2].ok /\ uploaded_files[2].text = <<NL>>
    /\ uploaded_files[3].ok /\ uploaded_files[3].text = ContractText
    /\ Len(data) = 1 /\ warnings = 1
    /\ data[1]["Customer Name"] = "Acme"

FieldNames ==
    {"Contract Type", "Contract No", "Customer Name", "Contact Number",
     "Address", "Location", "Unit Details", "Amount", "Contract Date",
     "Amc Start Date", "Amc End Date", "Service Frequency",
     "1st Service Month", "2nd Service Month", "3rd Service Month",
     "4th Service Month"}

AmcFieldNames ==
    {"Amc Start Date", "Amc End Date", "1st Service Month",
     "2nd Service Month", "3rd Service Month", "4th Service Month"}

HasToken(text, strs) == \E j \in 1..Len(text) : text[j].s \in strs

C2_Record(rec, file) ==
    /\ DOMAIN rec = FieldNames
    /\ rec["Service Frequency"] = 4
    /\ rec["Contract No"] = "1234"
    /\ \A f \in {"Contract Type", "Customer Name", "Contact Number",
                 "Address", "Location", "Unit Details", "Amount"} :
           rec[f] = ""
    /\ ~HasToken(file.text, {"AMC PERIOD", "Amc Period"}) =>
           \A f \in AmcFieldNames : rec[f] = ""

\* C2: every record has exactly the 16 declared fields; a field no pattern
\* matches holds its default ("" or 4 for Service Frequency), and writing
\* the service months adds no key.  (The texts here carry only AMC PERIOD
\* lines, so the seven fields of the other labels stay at their default.)
C2_ExactlyDeclaredFields == EachRecord(C2_Record)

C2_AllMonthsWritten(rec, file) ==
    /\ \A f \in AmcFieldNames : rec[f] # ""
    /\ Cardinality(DOMAIN rec) = 16

\* C2 witness: a record whose four service months were written.
C2_Witness == pc = "done" /\ SomeRecord(C2_AllMonthsWritten)

C3_Record(rec, file) ==
    \/ \A f \in AmcFieldNames : rec[f] # ""
    \/ \A f \in AmcFieldNames : rec[f] = ""

\* C3: in every record the start date, the end date and the four service
\* months are all non-empty or all empty.
C3_AllOrNothing == EachRecord(C3_Record)

\* The first place in the text where "AMC PERIOD", an optional ":" or "-",
\* a dd.mm.yyyy string, "to" or "-", and a dd.mm.yyyy string follow one
\* another (newlines between them allowed); the two strings.
C4_Period(text) ==
    LET sq == SelectSeq(text, LAMBDA t : t.k # "nl")
        At(i, n) ==
            /\ i + n + 2 <= Len(sq)
            /\ sq[i].s \in {"AMC PERIOD", "Amc Period"}
            /\ n = 1 => sq[i + 1].s \in {":", "-"}
            /\ sq[i + n + 1].k = "date"
            /\ sq[i + n + 2].s \in {"to", "-"}
            /\ i + n + 3 <= Len(sq) /\ sq[i + n + 3].k = "date"
        Hits == {h \in (1..Len(sq)) \X {0, 1} : At(h[1], h[2])}
        first == CHOOSE h \in Hits : \A g \in Hits : h[1] <= g[1]
    IN  IF Hits = {} THEN <<>>
        ELSE <<sq[first[1] + first[2] + 1], sq[first[1] + first[2] + 3]>>

C4_RealDate(t) ==
    /\ t.m \in 1..12 /\ t.y \in 1..9999
    /\ t.d >= 1
    /\ t.d <= <<31, IF t.y % 4 = 0 /\ (t.y % 100 # 0 \/ t.y % 400 = 0)
                    THEN 29 ELSE 28,
                31, 30, 31, 30, 31, 31, 30, 31, 30, 31>>[t.m]

C4_Month(start, n) ==
    <<"January", "February", "March", "April", "May", "June", "July",
      "August", "September", "October", "November", "December">>
        [((start.m - 1 + n) % 12) + 1]
    \o " " \o ToString(start.y + ((start.m - 1 + n) \div 12))

C4_Record(rec, file) ==
    LET per == C4_Period(file.text)
    IN  /\ (per # <<>> /\ C4_RealDate(per[1]) /\ C4_RealDate(per[2])) =>
              /\ rec["Amc Start Date"] =
                     Pad2(per[1].d) \o "-" \o Pad2(per[1].m) \o "-"
                     \o ToString(per[1].y)
              /\ rec["Amc End Date"] =
                     Pad2(per[2].d) \o "-" \o Pad2(per[2].m) \o "-"
                     \o ToString(per[2].y)
              /\ rec["1st Service Month"] = C4_Month(per[1], 2)
              /\ rec["2nd Service Month"] = C4_Month(per[1], 5)
              /\ rec["3rd Service Month"] = C4_Month(per[1], 8)
              /\ rec["4th Service Month"] = C4_Month(per[1], 11)
        /\ file.text = <<W("AMC PERIOD"), W(":"), D(1, 3, 2024), W("to"),
                         D(28, 2, 2025)>> =>
              /\ rec["Amc Start Date"] = "01-03-2024"
              /\ rec["Amc End Date"] = "28-02-2025"
              /\ rec["1st Service Month"] = "May 2024"
              /\ rec["2nd Service Month"] = "August 2024"
              /\ rec["3rd Service Month"] = "November 2024"
              /\ rec["4th Service Month"] = "February 2025"

\* C4: when the AMC PERIOD pattern is followed by two valid dates, the
\* start and end dates are those dates as dd-mm-yyyy and the four service
\* months are the start date plus 2, 5, 8 and 11 months, as "Month Year".
C4_ServiceMonths == EachRecord(C4_Record)

TablesOf(file) == extract_text_from_docx(file).table_data

C5_KeywordHeader(table) ==
    /\ table # <<>>
    /\ \E c \in 1..Len(table[1]) :
           table[1][c] \in {"Brand", "brand", "Qty", "QTY", "qty", "Rate",
                            "rate", "Range", "range", "Amount", "amount",
                            "Ton", "ton"}

C5_TableText(table) == Join(RowTexts(Tail(table)), "\n")

C5_Original(rec, file) ==
    LET td == TablesOf(file)
        Hits == {t \in 1..Len(td) : C5_KeywordHeader(td[t])}
    IN  Hits # {} =>
            rec["Unit Details"] =
                C5_TableText(td[CHOOSE t \in Hits : \A u \in Hits : t <= u])

\* C5, as stated: whenever some table's header row holds a keyword, Unit
\* Details is built from the data rows of the first such table alone.
C5_FirstKeywordTable == EachRecord(C5_Original)

C5_Amended(rec, file) ==
    LET td == TablesOf(file)
        Hits == {t \in 1..Len(td) : Len(td[t]) > 1 /\ C5_KeywordHeader(td[t])}
    IN  /\ Hits # {} =>
              rec["Unit Details"] =
                  C5_TableText(td[CHOOSE t \in Hits : \A u \in Hits : t <= u])
        /\ Hits = {} =>
              /\ rec["Unit Details"] = Join(UnitLinesFromText(file.text), "\n")
              /\ file.text = <<W("UNIT DETAILS"), W(":"), W("foo")>> =>
                     rec["Unit Details"] = "foo"

\* C5, amended: whenever some table with at least one data row has a
\* header row holding a keyword, Unit Details is built from the data rows
\* of the first such table alone and the free text contributes nothing;
\* the free text after UNIT DETAILS is used exactly when there is no such
\* table (a keyword table with a header row only does not count).
C5_FirstKeywordTableWithRows == EachRecord(C5_Amended)

C5_TableOverText(rec, file) ==
    /\ file.text = <<W("UNIT DETAILS"), W(":"), W("foo")>>
    /\ TablesOf(file) = << << <<"Brand", "Qty">> >>,
                           << <<"QTY", "Rate">>, <<"LG", "5">> >> >>
    /\ rec["Unit Details"] = "LG | 5"

\* C5 witness: a text with "UNIT DETAILS : foo", a header-only keyword
\* table and a keyword table with a row: the row is the Unit Details.
C5_Witness == pc = "done" /\ SomeRecord(C5_TableOverText)

C6_Total(row) ==
    \E c \in 1..Len(row) :
        row[c] \in {"TOTAL", "Total", "total", "TOTAL 5000", "Grand Total"}

C6_Original(rec, file) ==
    LET t == FirstQualifying(TablesOf(file), 1)
        rows == SelectSeq(Tail(TablesOf(file)[t]), LAMBDA r : ~C6_Total(r))
    IN  t # 0 =>
            rec["Unit Details"] =
                Join([r \in 1..Len(rows) |-> Join(rows[r], " | ")], "\n")

\* C6, as stated: of a qualifying table every row without the word TOTAL
\* appears, one per line, as all its cell values joined by " | ".
C6_EveryRowAllCells == EachRecord(C6_Original)

C6_Amended(rec, file) ==
    LET t == FirstQualifying(TablesOf(file), 1)
        Filled(r) == SelectSeq(r, LAMBDA c : c # "")
        rows == SelectSeq(Tail(TablesOf(file)[t]),
                          LAMBDA r : ~C6_Total(r) /\ Filled(r) # <<>>)
    IN  t # 0 =>
            rec["Unit Details"] =
                Join([r \in 1..Len(rows) |-> Join(Filled(rows[r]), " | ")],
                     "\n")

\* C6, amended: of a qualifying table every data row holding the standalone
\* word TOTAL (any case) is left out, and so is a row whose cells are all
\* empty; every other data row appears, in table order, one per line, as
\* its non-empty cell values joined by " | ".
C6_RowsNonEmptyCells == EachRecord(C6_Amended)

C6_TotalLeftOut(rec, file) ==
    /\ TablesOf(file) = << << <<"Brand", "Qty">>, <<"LG", "">>,
                              <<"TOTAL", "5000">> >> >>
    /\ rec["Unit Details"] = "LG"

\* C6 witness: a table with a row holding an empty cell and a TOTAL row.
C6_Witness == pc = "done" /\ SomeRecord(C6_TotalLeftOut)

\* The text without its newlines: the patterns allow whitespace between
\* their parts.
C7_Squeeze(text) == SelectSeq(text, LAMBDA t : t.k # "nl")

C7_IsNumber(t) == t.s \in {"12,500.00", "12500"}

\* The numbers captured by the primary pattern, by position of the label.
C7_Primary(sq) ==
    {h \in (1..Len(sq)) \X (1..Len(sq)) :
        /\ sq[h[1]].s = "AMOUNT"
        /\ C7_IsNumber(sq[h[2]])
        /\ \/ h[2] = h[1] + 1
           \/ h[2] = h[1] + 2 /\ sq[h[1] + 1].s \in {":", "-", "Rs."}
           \/ /\ h[2] = h[1] + 3
              /\ sq[h[1] + 1].s \in {":", "-"}
              /\ sq[h[1] + 2].s = "Rs."}

C7_Secondary(sq) ==
    {i \in 1..Len(sq) :
        C7_IsNumber(sq[i]) /\ i < Len(sq) /\ sq[i + 1].s = "/-"}

C7_Record(rec, file) ==
    LET sq == C7_Squeeze(file.text)
        P == C7_Primary(sq)
        S == C7_Secondary(sq)
    IN  /\ P # {} =>
              rec["Amount"] =
                  sq[(CHOOSE h \in P : \A g \in P : h[1] <= g[1])[2]].s
        /\ (P = {} /\ S # {}) =>
              rec["Amount"] = sq[CHOOSE i \in S : \A j \in S : i <= j].s
        /\ (P = {} /\ S = {}) => rec["Amount"] = ""
        /\ file.text = <<W("AMOUNT"), W(":"), W("Rs."), N("12,500.00")>> =>
              rec["Amount"] = "12,500.00"
        /\ file.text = <<W("x"), N("12500"), W("/-")>> =>
              rec["Amount"] = "12500"

\* C7: Amount is the number of the first match of the primary (AMOUNT
\* label) pattern when it matches; of the first match of the secondary
\* (number then "/-") pattern only when the primary has no match; and
\* empty when neither matches.
C7_AmountChain == EachRecord(C7_Record)

C7_PrimaryWins(rec, file) ==
    /\ file.text = <<N("12500"), W("/-"), W("AMOUNT"), N("12,500.00")>>
    /\ rec["Amount"] = "12,500.00"

\* C7 witness: the secondary pattern matches first in the text, the
\* primary later, and Amount is the primary's number.
C7_Witness == pc = "done" /\ SomeRecord(C7_PrimaryWins)

\* The matches of "CC", digits, "_" in a filename: start and last digit.
C8_Matches(name) ==
    {h \in (1..Len(name)) \X (1..Len(name)) :
        /\ h[1] + 2 <= h[2] /\ h[2] < Len(name)
        /\ name[h[1]] = "C" /\ name[h[1] + 1] = "C"
        /\ \A j \in (h[1] + 2)..h[2] : name[j] \in {"1", "2", "3", "4"}
        /\ name[h[2] + 1] = "_"}

C8_Expected(name) ==
    LET M == C8_Matches(name)
        first == CHOOSE h \in M : \A g \in M : h[1] <= g[1]
    IN  IF M = {} THEN ""
        ELSE Join(SubSeq(name, first[1] + 2, first[2]), "")

C8_Record(rec, file) ==
    /\ rec["Contract No"] = C8_Expected(file.name)
    /\ file.name = ClientName => rec["Contract No"] = "1234"

\* C8: the Contract No of a record is the digit run of the first
\* "CC<digits>_" of the filename, or "" without one, and two records whose
\* files share a filename share the Contract No, whatever their bodies.
C8_ContractNoFromFilename ==
    /\ EachRecord(C8_Record)
    /\ \A j, k \in 1..Len(data) :
           (/\ j <= Len(Sources(idx - 1)) /\ k <= Len(Sources(idx - 1))
            /\ uploaded_files[Sources(idx - 1)[j]].name
                   = uploaded_files[Sources(idx - 1)[k]].name)
           => data[j]["Contract No"] = data[k]["Contract No"]

\* C8 witness: two files named CC1_CC2_ with different bodies both gave a
\* record with Contract No "1".
C8_Witness ==
    /\ pc = "done" /\ Len(data) = 2
    /\ uploaded_files[1].name = <<"C", "C", "1", "_", "C", "C", "2", "_">>
    /\ uploaded_files[2].name = uploaded_files[1].name
    /\ uploaded_files[1].text # uploaded_files[2].text
    /\ data[1]["Contract No"] = "1" /\ data[2]["Contract No"] = "1"

C9_RealDate(t) ==
    /\ t.k = "date"
    /\ t.m \in 1..12 /\ t.y \in 1..9999
    /\ t.d >= 1
    /\ t.d <= <<31, IF t.y % 4 = 0 /\ (t.y % 100 # 0 \/ t.y % 400 = 0)
                    THEN 29 ELSE 28,
                31, 30, 31, 30, 31, 31, 30, 31, 30, 31>>[t.m]

C9_Record(rec, file) ==
    LET V == {i \in 1..Len(file.text) : C9_RealDate(file.text[i])}
        t == file.text[CHOOSE i \in V : \A j \in V : i <= j]
    IN  /\ V = {} <=> rec["Contract Date"] = ""
        /\ V # {} =>
              rec["Contract Date"] =
                  Pad2(t.d) \o "-" \o Pad2(t.m) \o "-" \o ToString(t.y)
        /\ file.text = <<D(31, 2, 2024), D(15, 13, 2024)>> =>
              rec["Contract Date"] = ""
        /\ file.text = <<D(31, 2, 2024), D(1, 3, 2024)>> =>
              rec["Contract Date"] = "01-03-2024"

\* C9: Contract Date is the first dd.mm.yyyy string of the text that is a
\* calendar date, as dd-mm-yyyy, the strings before it that are not being
\* skipped; it is empty exactly when the text has no such string.
C9_FirstValidDate == EachRecord(C9_Record)

C9_SkipsTwo(rec, file) ==
    /\ file.text = <<D(31, 2, 2024), D(15, 13, 2024), D(29, 2, 2024)>>
    /\ rec["Contract Date"] = "29-02-2024"

\* C9 witness: 31.02.2024 and 15.13.2024 are skipped, 29.02.2024 is taken.
C9_Witness == pc = "done" /\ SomeRecord(C9_SkipsTwo)

C10_Has(text, phrases, heads) ==
    \E i \in 1..Len(text) :
        \/ text[i].s \in phrases
        \/ /\ text[i].s \in heads
           /\ i < Len(text) /\ text[i + 1].s \in {"Contract", "CONTRACT"}

C10_Record(rec, file) ==
    LET annual == C10_Has(file.text, {"Annual Maintenance Contract"},
                          {"Annual Maintenance"})
        labour == C10_Has(file.text, {"labour maintenance contract"},
                          {"LABOUR MAINTENANCE"})
    IN  /\ rec["Contract Type"] \in {"ANNUAL MAINTENANCE CONTRACT",
                                     "LABOUR MAINTENANCE CONTRACT", ""}
        /\ annual => rec["Contract Type"] = "ANNUAL MAINTENANCE CONTRACT"
        /\ (labour /\ ~annual) =>
               rec["Contract Type"] = "LABOUR MAINTENANCE CONTRACT"
        /\ (~labour /\ ~annual) => rec["Contract Type"] = ""

\* C10: Contract Type is "ANNUAL MAINTENANCE CONTRACT" when that phrase is
\* in the text (any case), "LABOUR MAINTENANCE CONTRACT" when only that
\* phrase is, and "" when neither is; it is never anything else.
C10_ContractType == EachRecord(C10_Record)

C10_BothPhrases(rec, file) ==
    /\ file.text = <<W("labour maintenance contract"), NL,
                     W("Annual Maintenance"), W("Contract")>>
    /\ rec["Contract Type"] = "ANNUAL MAINTENANCE CONTRACT"

\* C10 witness: the labour phrase comes first, the annual phrase second,
\* and the type is the annual one.
C10_Witness == pc = "done" /\ SomeRecord(C10_BothPhrases)

=============================================================================
